---------------------------- MODULE Spec2Model ----------------------------
(***************************************************************************)
(* A model of bild (src/main.go): the whole-project edit document          *)
(* (serialize, editor, parse, save), the single-phase edit, and the run    *)
(* operation (configuration resolution and fail-fast phase execution).     *)
(*                                                                         *)
(* Strings are sequences of one-character strings, so that TrimSpace,      *)
(* HasPrefix, Split and the concatenations of the source are computed and  *)
(* not assumed.                                                            *)
(***************************************************************************)
EXTENDS Naturals, Sequences, FiniteSets, TLC

(***************************************************************************)
(* Go's strings package, as used by main.go.                               *)
(***************************************************************************)

\* unicode.IsSpace restricted to the characters of the model's alphabet
WhiteSpace == {" ", "\t", "\n", "\r"}

\* strings.TrimSpace
TrimSpace(s) ==
    IF \A i \in 1..Len(s) : s[i] \in WhiteSpace THEN <<>>
    ELSE LET lo == CHOOSE i \in 1..Len(s) :
                        /\ s[i] \notin WhiteSpace
                        /\ \A j \in 1..(i - 1) : s[j] \in WhiteSpace
             hi == CHOOSE i \in 1..Len(s) :
                        /\ s[i] \notin WhiteSpace
                        /\ \A j \in (i + 1)..Len(s) : s[j] \in WhiteSpace
         IN  SubSeq(s, lo, hi)

\* strings.HasPrefix
HasPrefix(s, prefix) ==
    /\ Len(s) >= Len(prefix)
    /\ SubSeq(s, 1, Len(prefix)) = prefix

\* strings.Split(s, "\n"): the pieces between newlines; Split("") is <<"">>
RECURSIVE SplitFrom(_, _)
SplitFrom(s, start) ==
    IF \A i \in start..Len(s) : s[i] # "\n"
    THEN <<SubSeq(s, start, Len(s))>>
    ELSE LET i == CHOOSE i \in start..Len(s) :
                        /\ s[i] = "\n"
                        /\ \A j \in start..(i - 1) : s[j] # "\n"
         IN  <<SubSeq(s, start, i - 1)>> \o SplitFrom(s, i + 1)

SplitLines(s) == SplitFrom(s, 1)

\* strings.Join(lines, "\n")
RECURSIVE JoinLines(_)
JoinLines(lines) ==
    IF lines = <<>> THEN <<>>
    ELSE IF Len(lines) = 1 THEN lines[1]
    ELSE lines[1] \o <<"\n">> \o JoinLines(Tail(lines))

(***************************************************************************)
(* The literal texts of the edit document (main.go:166-184, 205-230).      *)
(***************************************************************************)

\* the grave accent of the Markdown fence, as a character of its own
BQ == "grave"

ProjectHeader ==
    <<"#", " ", "P", "r", "o", "j", "e", "c", "t", ":">>

ProjectTitle ==
    <<"#", " ", "P", "r", "o", "j", "e", "c", "t", ":", " ">>

EditCommands ==
    <<"E", "d", "i", "t", " ", "c", "o", "m", "m", "a", "n", "d", "s">>

Instr1 ==
    <<"E", "d", "i", "t", " ", "c", "o", "m", "m", "a", "n", "d", "s", " ", "f", "o", "r", " ", "e", "a", "c", "h", " ", "p", "h", "a", "s", "e", " ", "b", "e", "l", "o", "w", ".", " ", "I", "n", "s", "t", "r", "u", "c", "t", "i", "o", "n", "s", ":", "\n">>

Instr2 ==
    <<"-", " ", "O", "r", "d", "e", "r", " ", "o", "f", " ", "p", "h", "a", "s", "e", "s", " ", "h", "e", "r", "e", " ", "d", "e", "t", "e", "r", "m", "i", "n", "e", "s", " ", "e", "x", "e", "c", "u", "t", "i", "o", "n", " ", "o", "r", "d", "e", "r", "\n">>

Instr3 ==
    <<"-", " ", "C", "o", "m", "m", "a", "n", "d", "s", " ", "m", "u", "s", "t", " ", "b", "e", " ", "i", "n", "s", "i", "d", "e", " ", BQ, BQ, BQ, " ", "b", "l", "o", "c", "k", "s", "\n">>

Instr4 ==
    <<"-", " ", "E", "a", "c", "h", " ", "p", "h", "a", "s", "e", " ", "m", "u", "s", "t", " ", "b", "e", " ", "a", " ", "l", "e", "v", "e", "l", " ", "2", " ", "h", "e", "a", "d", "i", "n", "g", " ", "(", "#", "#", ")", "\n", "\n">>

HeadingMarker ==
    <<"#", "#", " ">>

Fence ==
    <<BQ, BQ, BQ>>

FenceBash ==
    <<BQ, BQ, BQ, "b", "a", "s", "h">>

(***************************************************************************)
(* editEntireProject, first half: the initial content of the document.     *)
(***************************************************************************)

\* the title and the instructions (main.go:166-172)
DocHeader(projectName) ==
    ProjectTitle \o projectName \o <<"\n", "\n">>
        \o Instr1 \o Instr2 \o Instr3 \o Instr4

\* PhaseBlock with a comment line written as the first line of the fence,
\* the way the single-phase template starts (main.go:553)
PhaseBlock_WithHint(phase) ==
    HeadingMarker \o phase.name \o <<"\n", "\n">>
        \o FenceBash \o <<"\n">>
        \o <<"#", " ", "c", "m", "d", "s", "\n">>
        \o JoinLines(phase.commands)
        \o <<"\n">> \o Fence \o <<"\n", "\n">>

\* a phase's heading and fenced block (main.go:176-184)
PhaseBlock(phase) ==
    HeadingMarker \o phase.name \o <<"\n", "\n">>
        \o FenceBash \o <<"\n">>
        \o JoinLines(phase.commands)
        \o <<"\n">> \o Fence \o <<"\n", "\n">>

RECURSIVE PhaseBlocks(_)
PhaseBlocks(phases) ==
    IF phases = <<>> THEN <<>>
    ELSE PhaseBlock(Head(phases)) \o PhaseBlocks(Tail(phases))

\* main.go:162-185
Serialize(projectName, phases) ==
    DocHeader(projectName) \o PhaseBlocks(phases)

(***************************************************************************)
(* editEntireProject, second half: the line scanner (main.go:194-245).     *)
(* The scanner's state is newPhases, currentPhase (open, name),            *)
(* inCodeBlock and codeLines.                                              *)
(***************************************************************************)

ScanInit ==
    [newPhases |-> <<>>, open |-> FALSE, name |-> <<>>,
     inCodeBlock |-> FALSE, codeLines |-> <<>>]

\* IsSkipped without the test for a leading hyphen
IsSkipped_NoHyphen(trimmed) ==
    \/ trimmed = <<>>
    \/ HasPrefix(trimmed, ProjectHeader)
    \/ HasPrefix(trimmed, EditCommands)

\* main.go:205-206: the lines skipped before any other rule
IsSkipped(trimmed) ==
    \/ trimmed = <<>>
    \/ HasPrefix(trimmed, ProjectHeader)
    \/ HasPrefix(trimmed, EditCommands)
    \/ HasPrefix(trimmed, <<"-">>)

\* main.go:211
IsHeading(trimmed) == HasPrefix(trimmed, HeadingMarker)

\* main.go:230
IsFence(trimmed) == trimmed = Fence \/ trimmed = FenceBash

\* Finalize without the test of len(codeLines): every open phase is appended
Finalize_KeepEmpty(st) ==
    IF st.open
    THEN Append(st.newPhases, [name |-> st.name, commands |-> st.codeLines])
    ELSE st.newPhases

\* Finalize putting the phase in front of newPhases instead of after it
Finalize_Prepend(st) ==
    IF st.open /\ Len(st.codeLines) > 0
    THEN <<[name |-> st.name, commands |-> st.codeLines]>> \o st.newPhases
    ELSE st.newPhases

\* main.go:213-216 and 242-245: the phase being built is appended only when
\* it collected at least one line
Finalize(st) ==
    IF st.open /\ Len(st.codeLines) > 0
    THEN Append(st.newPhases, [name |-> st.name, commands |-> st.codeLines])
    ELSE st.newPhases

\* ScanLine without "inCodeBlock = false" at a heading (main.go:225)
ScanLine_KeepFence(st, line) ==
    LET trimmed == TrimSpace(line)
    IN  IF IsSkipped(trimmed) THEN st
        ELSE IF IsHeading(trimmed)
        THEN [newPhases |-> Finalize(st),
              open |-> TRUE,
              name |-> TrimSpace(SubSeq(trimmed, 4, Len(trimmed))),
              inCodeBlock |-> st.inCodeBlock,
              codeLines |-> <<>>]
        ELSE IF IsFence(trimmed)
        THEN [st EXCEPT !.inCodeBlock = ~st.inCodeBlock]
        ELSE IF st.inCodeBlock /\ st.open /\ trimmed # <<>>
        THEN [st EXCEPT !.codeLines = Append(st.codeLines, trimmed)]
        ELSE st

\* ScanLine without the test of inCodeBlock before a line is collected
\* (main.go:236)
ScanLine_OutsideFence(st, line) ==
    LET trimmed == TrimSpace(line)
    IN  IF IsSkipped(trimmed) THEN st
        ELSE IF IsHeading(trimmed)
        THEN [newPhases |-> Finalize(st),
              open |-> TRUE,
              name |-> TrimSpace(SubSeq(trimmed, 4, Len(trimmed))),
              inCodeBlock |-> FALSE,
              codeLines |-> <<>>]
        ELSE IF IsFence(trimmed)
        THEN [st EXCEPT !.inCodeBlock = ~st.inCodeBlock]
        ELSE IF st.open /\ trimmed # <<>>
        THEN [st EXCEPT !.codeLines = Append(st.codeLines, trimmed)]
        ELSE st

\* main.go:201-238: one iteration of the loop
ScanLine(st, line) ==
    LET trimmed == TrimSpace(line)
    IN  IF IsSkipped(trimmed) THEN st
        ELSE IF IsHeading(trimmed)
        THEN [newPhases |-> Finalize(st),
              open |-> TRUE,
              name |-> TrimSpace(SubSeq(trimmed, 4, Len(trimmed))),
              inCodeBlock |-> FALSE,
              codeLines |-> <<>>]
        ELSE IF IsFence(trimmed)
        THEN [st EXCEPT !.inCodeBlock = ~st.inCodeBlock]
        ELSE IF st.inCodeBlock /\ st.open /\ trimmed # <<>>
        THEN [st EXCEPT !.codeLines = Append(st.codeLines, trimmed)]
        ELSE st

RECURSIVE ScanFrom(_, _, _)
ScanFrom(st, lines, i) ==
    IF i > Len(lines) THEN st
    ELSE ScanFrom(ScanLine(st, lines[i]), lines, i + 1)

\* main.go:194-245
Parse(editedContent) ==
    Finalize(ScanFrom(ScanInit, SplitLines(editedContent), 1))

(***************************************************************************)
(* The state: the files the tool reads and writes, the version-control     *)
(* context, and each invocation of the tool (a process running main).      *)
(***************************************************************************)

VARIABLES
    globalFile,   \* the global configuration file: [kind, projects]
    localFile,    \* per directory, the .bild.json there: [kind, projects]
    inRepo,       \* whether "git rev-parse --show-toplevel" succeeds
    chdirOk,      \* whether os.Chdir to the repository root succeeds
    inv           \* per process, the invocation it runs

vars == <<globalFile, localFile, inRepo, chdirOk, inv>>

\* the directories of the model: the repository root (or, outside a
\* repository, just a directory) and a subdirectory of it
Dirs == {"root", "sub"}

\* the directory "git rev-parse --show-toplevel" prints inside a repository
RepoRoot == "root"

\* filepath.Base of the repository root (main.go:112)
RepoName == <<"p">>

\* a map[string]ProjectConfig with no entry (main.go:70-72)
EmptyProjects == [n \in {} |-> <<>>]

\* config.Projects[projectName] = proj
Put(projects, projectName, phases) ==
    [n \in DOMAIN projects \cup {projectName} |->
        IF n = projectName THEN phases ELSE projects[n]]

\* a file: absent, not decodable as JSON, or a JSON object that holds a
\* projects mapping, either inside a top-level "projects" key (wrapper) or
\* as the top-level object itself
Absent == [kind |-> "absent", wrapper |-> FALSE, projects |-> EmptyProjects]
Undecodable == [kind |-> "bad", wrapper |-> FALSE, projects |-> EmptyProjects]

\* json.MarshalIndent of a Config (main.go:94): {"projects": {...}}
FileOf(projects) == [kind |-> "ok", wrapper |-> TRUE, projects |-> projects]

\* json.MarshalIndent of a map[string]ProjectConfig (main.go:281-286), the
\* shape loadLocalConfig decodes (main.go:343-344): {...}
LocalFileOf(projects) ==
    [kind |-> "ok", wrapper |-> FALSE, projects |-> projects]

\* the key of the wrapper
ProjectsKey == <<"p", "r", "o", "j", "e", "c", "t", "s">>

\* a process before main starts
Idle ==
    [pc |-> "idle", op |-> "none", nargs |-> 0,
     projectName |-> <<>>, phaseName |-> <<>>,
     config |-> EmptyProjects, startDir |-> "root", cwd |-> "root",
     tmpFile |-> <<>>, operator |-> [kind |-> "none", perm |-> <<>>],
     editorStatus |-> 0, scan |-> ScanInit, lineNo |-> 0,
     resolved |-> FALSE, hasLocal |-> FALSE, proj |-> <<>>,
     idx |-> 0, cmdIdx |-> 0, log |-> <<>>,
     exit |-> 0, err |-> "none", stderr |-> FALSE]

\* os.Exit(1) after a message on the error stream (main.go:371-372, 385-386,
\* 391-392, 420-421, 457-458, 663-664)
Fatal(r, why) ==
    [r EXCEPT !.pc = "exited", !.exit = 1, !.err = why, !.stderr = TRUE]

\* os.Exit(1) with nothing written (main.go:362)
SilentExit(r, why) ==
    [r EXCEPT !.pc = "exited", !.exit = 1, !.err = why]

\* main returns: exit status 0
Success(r) == [r EXCEPT !.pc = "exited", !.exit = 0]

(***************************************************************************)
(* loadConfig (main.go:64-86) and loadLocalConfig (main.go:332-349).       *)
(***************************************************************************)

\* loadConfig: an absent file is an empty config, an undecodable one an
\* error; json.Unmarshal into a Config reads the "projects" key and ignores
\* every other key, so an object without the wrapper leaves Projects empty
loadConfig ==
    IF globalFile.kind = "ok"
    THEN [ok |-> TRUE,
          projects |-> IF globalFile.wrapper THEN globalFile.projects
                       ELSE EmptyProjects]
    ELSE [ok |-> globalFile.kind = "absent", projects |-> EmptyProjects]

\* loadLocalConfig in directory dir: (config, hasLocal, err); json.Unmarshal
\* into the map takes every top-level key as a project, so an object with
\* the wrapper is one project named "projects", which has no "phases"
loadLocalConfig(dir) ==
    LET f == localFile[dir]
    IN  [err |-> f.kind = "bad",
         hasLocal |-> f.kind = "ok",
         projects |-> IF f.kind = "ok" /\ f.wrapper
                      THEN [n \in {ProjectsKey} |-> <<>>]
                      ELSE f.projects]

(***************************************************************************)
(* The run operation: runCmd (main.go:495-520), runProject (354-461).      *)
(***************************************************************************)

\* the names and arguments a caller may give; <<>> is the empty string
ProjectArgs == {<<"p">>, <<"q">>, <<"w">>, <<>>}
PhaseArgs == {<<"a">>, <<"A">>, <<"b">>, <<>>}

\* runCmd: the arguments, getGitRepoName when there is none, loadConfig
runCmd(p) ==
    /\ inv[p].pc = "idle"
    /\ \E n \in 0..2, a1 \in ProjectArgs, a2 \in PhaseArgs, dir \in Dirs :
        LET r0 == [inv[p] EXCEPT !.op = "run", !.nargs = n,
                       !.startDir = dir, !.cwd = dir,
                       !.projectName = IF n = 0 THEN RepoName ELSE a1,
                       !.phaseName = IF n = 2 THEN a2 ELSE <<>>]
            cfg == loadConfig
        IN  inv' = [inv EXCEPT ![p] =
                IF n = 0 /\ ~inRepo
                THEN Fatal([r0 EXCEPT !.projectName = <<>>], "no_git_name")
                ELSE IF ~cfg.ok THEN Fatal(r0, "load_config")
                ELSE [r0 EXCEPT !.pc = "chdir", !.config = cfg.projects]]
    /\ UNCHANGED <<globalFile, localFile, inRepo, chdirOk>>

\* runChdir without os.Chdir (main.go:361): the run stays where it started
runChdir_Stay(p) ==
    /\ inv[p].pc = "chdir"
    /\ inv' = [inv EXCEPT ![p] =
            IF inRepo
            THEN IF chdirOk
                 THEN [@ EXCEPT !.pc = "resolve"]
                 ELSE SilentExit(@, "chdir")
            ELSE [@ EXCEPT !.pc = "resolve"]]
    /\ UNCHANGED <<globalFile, localFile, inRepo, chdirOk>>

\* runProject, main.go:355-366: change to the repository root when there is one
runChdir(p) ==
    /\ inv[p].pc = "chdir"
    /\ inv' = [inv EXCEPT ![p] =
            IF inRepo
            THEN IF chdirOk
                 THEN [@ EXCEPT !.pc = "resolve", !.cwd = RepoRoot]
                 ELSE SilentExit(@, "chdir")
            ELSE [@ EXCEPT !.pc = "resolve"]]
    /\ UNCHANGED <<globalFile, localFile, inRepo, chdirOk>>

\* FirstNamed with the loop's break (main.go:453) left out: the last match
FirstNamed_NoBreak(phases, phaseName) ==
    LET hits == {i \in 1..Len(phases) : phases[i].name = phaseName}
    IN  IF hits = {} THEN 0 ELSE CHOOSE i \in hits : \A j \in hits : j <= i

\* main.go:429-431: the index of the first phase named phaseName, 0 if none
FirstNamed(phases, phaseName) ==
    LET hits == {i \in 1..Len(phases) : phases[i].name = phaseName}
    IN  IF hits = {} THEN 0 ELSE CHOOSE i \in hits : \A j \in hits : i <= j

\* Select with the "not found" exit (main.go:456-459) left out: a phase name
\* that matches nothing starts at the first phase
Select_NoNotFound(r, phases) ==
    LET s == [r EXCEPT !.resolved = TRUE, !.proj = phases]
    IN  IF r.phaseName = <<>> \/ FirstNamed(phases, r.phaseName) = 0
        THEN [s EXCEPT !.pc = "phases", !.idx = 1]
        ELSE [s EXCEPT !.pc = "phases",
                       !.idx = FirstNamed(phases, r.phaseName)]

\* main.go:396-459 once proj is known: all phases from the first one, or the
\* first phase with the requested name, or "phase not found"
Select(r, phases) ==
    LET s == [r EXCEPT !.resolved = TRUE, !.proj = phases]
    IN  IF r.phaseName = <<>>
        THEN [s EXCEPT !.pc = "phases", !.idx = 1]
        ELSE IF FirstNamed(phases, r.phaseName) = 0
        THEN Fatal(s, "phase_not_found")
        ELSE [s EXCEPT !.pc = "phases",
                       !.idx = FirstNamed(phases, r.phaseName)]

\* main.go:376-381: the first project of the local config in map iteration
\* order, which Go leaves unspecified; the zero ProjectConfig when it is empty
LocalChoices(projects) ==
    IF DOMAIN projects = {} THEN {<<>>}
    ELSE {projects[n] : n \in DOMAIN projects}

\* runResolve with the precedence reversed: the global config when it knows
\* the project name, the local config otherwise
runResolve_GlobalFirst(p) ==
    /\ inv[p].pc = "resolve"
    /\ LET r == inv[p]
           loc == loadLocalConfig(r.cwd)
       IN  \E phases \in LocalChoices(loc.projects) :
            inv' = [inv EXCEPT ![p] =
                IF loc.err THEN Fatal(r, "local_config")
                ELSE IF r.projectName \in DOMAIN r.config
                THEN Select(r, r.config[r.projectName])
                ELSE IF loc.hasLocal
                THEN Select([r EXCEPT !.hasLocal = TRUE], phases)
                ELSE IF r.projectName = <<>>
                THEN Fatal(r, "no_project_name")
                ELSE Fatal(r, "project_not_found")]
    /\ UNCHANGED <<globalFile, localFile, inRepo, chdirOk>>

\* main.go:368-394: local config first, else the global config by name
runResolve(p) ==
    /\ inv[p].pc = "resolve"
    /\ LET r == inv[p]
           loc == loadLocalConfig(r.cwd)
       IN  \E phases \in LocalChoices(loc.projects) :
            inv' = [inv EXCEPT ![p] =
                IF loc.err THEN Fatal(r, "local_config")
                ELSE IF loc.hasLocal
                THEN Select([r EXCEPT !.hasLocal = TRUE], phases)
                ELSE IF r.projectName = <<>>
                THEN Fatal(r, "no_project_name")
                ELSE IF r.projectName \notin DOMAIN r.config
                THEN Fatal(r, "project_not_found")
                ELSE Select(r, r.config[r.projectName])]
    /\ UNCHANGED <<globalFile, localFile, inRepo, chdirOk>>

\* what the run did, in order: a phase's script handed to the shell ("start",
\* ok when the shell started), a command of it run ("cmd", ok when it
\* succeeded), the shell's exit ("exit", ok when its status is 0)
Event(ev, phase, cmd, ok, script) ==
    [ev |-> ev, phase |-> phase, cmd |-> cmd, ok |-> ok, script |-> script]

\* main.go:398-417 and 432-447: the phase's script is handed to "sh -c";
\* cmd.Run fails at once when the shell cannot be started
runStartPhase(p) ==
    /\ inv[p].pc = "phases"
    /\ inv[p].idx <= Len(inv[p].proj)
    /\ \E launched \in BOOLEAN :
        inv' = [inv EXCEPT ![p] =
            LET ph == inv[p].proj[inv[p].idx]
                r == [@ EXCEPT !.log = Append(@,
                        Event("start", inv[p].idx, 0, launched, ph.commands))]
            IN  IF launched THEN [r EXCEPT !.pc = "sh", !.cmdIdx = 1]
                ELSE Fatal(r, "phase_failed")]
    /\ UNCHANGED <<globalFile, localFile, inRepo, chdirOk>>

\* shCommand without "set -e": the shell goes on after a failing command
shCommand_NoSetE(p) ==
    /\ inv[p].pc = "sh"
    /\ inv[p].cmdIdx <= Len(inv[p].proj[inv[p].idx].commands)
    /\ \E succeeds \in BOOLEAN :
        inv' = [inv EXCEPT ![p] =
            LET i == inv[p].idx
                j == inv[p].cmdIdx
                ran == Event("cmd", i, j, succeeds,
                             <<inv[p].proj[i].commands[j]>>)
            IN  [@ EXCEPT !.log = Append(@, ran), !.cmdIdx = j + 1]]
    /\ UNCHANGED <<globalFile, localFile, inRepo, chdirOk>>

\* shCommand with the error of cmd.Run (main.go:419, 449) not looked at: after
\* a failing script the run goes on
shCommand_GoOn(p) ==
    /\ inv[p].pc = "sh"
    /\ inv[p].cmdIdx <= Len(inv[p].proj[inv[p].idx].commands)
    /\ \E succeeds \in BOOLEAN :
        inv' = [inv EXCEPT ![p] =
            LET i == inv[p].idx
                j == inv[p].cmdIdx
                ran == Event("cmd", i, j, succeeds,
                             <<inv[p].proj[i].commands[j]>>)
            IN  IF succeeds
                THEN [@ EXCEPT !.log = Append(@, ran), !.cmdIdx = j + 1]
                ELSE [@ EXCEPT !.log = Append(Append(@, ran),
                                Event("exit", i, 0, FALSE, <<>>)),
                           !.pc = "phases", !.idx = i + 1]]
    /\ UNCHANGED <<globalFile, localFile, inRepo, chdirOk>>

\* the shell under "set -e" (main.go:403, 436) runs the next command of the
\* script: it goes on when the command succeeds and exits non-zero when it fails,
\* upon which cmd.Run returns an error (main.go:419-422, 449-452)
shCommand(p) ==
    /\ inv[p].pc = "sh"
    /\ inv[p].cmdIdx <= Len(inv[p].proj[inv[p].idx].commands)
    /\ \E succeeds \in BOOLEAN :
        inv' = [inv EXCEPT ![p] =
            LET i == inv[p].idx
                j == inv[p].cmdIdx
                ran == Event("cmd", i, j, succeeds,
                             <<inv[p].proj[i].commands[j]>>)
            IN  IF succeeds
                THEN [@ EXCEPT !.log = Append(@, ran), !.cmdIdx = j + 1]
                ELSE Fatal([@ EXCEPT !.log = Append(Append(@, ran),
                                Event("exit", i, 0, FALSE, <<>>))],
                           "phase_failed")]
    /\ UNCHANGED <<globalFile, localFile, inRepo, chdirOk>>

\* shExit with the loop variable advanced twice: every other phase is skipped
shExit_Skip(p) ==
    /\ inv[p].pc = "sh"
    /\ inv[p].cmdIdx > Len(inv[p].proj[inv[p].idx].commands)
    /\ inv' = [inv EXCEPT ![p] =
            LET r == [@ EXCEPT !.log = Append(@,
                        Event("exit", inv[p].idx, 0, TRUE, <<>>))]
            IN  IF r.phaseName = <<>>
                THEN [r EXCEPT !.pc = "phases", !.idx = @ + 2]
                ELSE Success(r)]
    /\ UNCHANGED <<globalFile, localFile, inRepo, chdirOk>>

\* the shell reaches the end of the script and exits 0: the loop goes on to
\* the next phase (main.go:398, 423), or breaks after the one phase asked for
\* (main.go:453)
shExit(p) ==
    /\ inv[p].pc = "sh"
    /\ inv[p].cmdIdx > Len(inv[p].proj[inv[p].idx].commands)
    /\ inv' = [inv EXCEPT ![p] =
            LET r == [@ EXCEPT !.log = Append(@,
                        Event("exit", inv[p].idx, 0, TRUE, <<>>))]
            IN  IF r.phaseName = <<>>
                THEN [r EXCEPT !.pc = "phases", !.idx = @ + 1]
                ELSE Success(r)]
    /\ UNCHANGED <<globalFile, localFile, inRepo, chdirOk>>

\* main.go:424: every phase has run
runReturn(p) ==
    /\ inv[p].pc = "phases"
    /\ inv[p].idx > Len(inv[p].proj)
    /\ inv' = [inv EXCEPT ![p] = Success(@)]
    /\ UNCHANGED <<globalFile, localFile, inRepo, chdirOk>>

(***************************************************************************)
(* The run operation's inputs.                                             *)
(***************************************************************************)

\* the longest phase list and the longest command list of the inputs
MaxPhases == 3
MaxCmds == 3

\* the k-th command of a script
CmdText(k) == <<"c", <<"1", "2", "3", "4", "5", "6">>[k]>>
Cmds(n) == [k \in 1..n |-> CmdText(k)]

RunPhases ==
    {[name |-> <<"a">>, commands |-> Cmds(MaxCmds)],
     [name |-> <<"A">>, commands |-> Cmds(1)],
     [name |-> <<"a">>, commands |-> Cmds(0)]}

SeqsUpTo(S, n) == UNION {[1..k -> S] : k \in 0..n}

RunLists == SeqsUpTo(RunPhases, MaxPhases)

\* a phase list no list of RunLists equals
OtherList == <<[name |-> <<"a">>, commands |-> <<<<"o">>>>]>>

InitRun ==
    /\ inRepo \in BOOLEAN
    /\ chdirOk \in BOOLEAN
    /\ \E t \in RunLists :
        /\ globalFile \in
            {Absent, Undecodable,
             FileOf([n \in {<<"p">>, <<"q">>} |->
                        IF n = <<"p">> THEN t ELSE OtherList])}
        /\ \E atRoot \in
                {Absent, Undecodable, LocalFileOf(EmptyProjects),
                 LocalFileOf([n \in {<<"x">>} |-> t]),
                 LocalFileOf([n \in {<<"x">>, <<"z">>} |->
                                IF n = <<"x">> THEN t ELSE OtherList])},
              atSub \in {Absent,
                         LocalFileOf([n \in {<<"z">>} |-> OtherList])} :
            localFile = [d \in Dirs |-> IF d = "root" THEN atRoot ELSE atSub]
    /\ inv = [p \in {1} |-> Idle]

\* one invocation, by process 1
NextRun ==
    \/ runCmd(1)
    \/ runChdir(1)
    \/ runResolve(1)
    \/ runStartPhase(1)
    \/ shCommand(1)
    \/ shExit(1)
    \/ runReturn(1)

SpecRun == InitRun /\ [][NextRun]_vars

(***************************************************************************)
(* The edit operation: editCmd (main.go:584-606), editEntireProject        *)
(* (155-262), editProjectPhase (524-581), openEditor (117-151).            *)
(***************************************************************************)

\* the template of an empty phase (main.go:553)
Tmpl1 ==
    <<"#", " ", "E", "n", "t", "e", "r", " ", "o", "n", "e", " ", "c", "o", "m", "m", "a", "n", "d", " ", "p", "e", "r", " ", "l", "i", "n", "e", " ", "f", "o", "r", " ", "p", "h", "a", "s", "e", " ", "'">>

Tmpl2 ==
    <<"'", ".", "\n", "#", " ", "L", "i", "n", "e", "s", " ", "s", "t", "a", "r", "t", "i", "n", "g", " ", "w", "i", "t", "h", " ", "'", "#", "'", " ", "a", "r", "e", " ", "i", "g", "n", "o", "r", "e", "d", ".", "\n">>

\* main.go:157-160 and 526-529: the project's phases, none when it is new
PhasesOf(config, projectName) ==
    IF projectName \in DOMAIN config THEN config[projectName] ELSE <<>>

\* main.go:531-537: the index of the first phase named phaseName, 0 if none
PhaseIndex(phases, phaseName) ==
    LET hits == {i \in 1..Len(phases) : phases[i].name = phaseName}
    IN  IF hits = {} THEN 0 ELSE CHOOSE i \in hits : \A j \in hits : i <= j

\* main.go:538-546: the phase list with the phase created when it is missing
WithPhase(phases, phaseName) ==
    IF PhaseIndex(phases, phaseName) = 0
    THEN Append(phases, [name |-> phaseName, commands |-> <<>>])
    ELSE phases

\* main.go:549-554: the initial content of a single-phase edit
PhaseContent(phases, phaseName) ==
    LET ps == WithPhase(phases, phaseName)
        ph == ps[PhaseIndex(ps, phaseName)]
    IN  IF Len(ph.commands) > 0 THEN JoinLines(ph.commands)
        ELSE Tmpl1 \o phaseName \o Tmpl2

\* main.go:563-570: the commands of a single-phase edit
RECURSIVE CommandsFrom(_, _)
CommandsFrom(lines, i) ==
    IF i > Len(lines) THEN <<>>
    ELSE LET trimmed == TrimSpace(lines[i])
         IN  IF trimmed = <<>> \/ HasPrefix(trimmed, <<"#">>)
             THEN CommandsFrom(lines, i + 1)
             ELSE <<trimmed>> \o CommandsFrom(lines, i + 1)

\* ParseCommands without the comment test of main.go:566: every non-blank
\* line is a command
ParseCommands_KeepHash(editedContent) ==
    LET ls == SplitLines(editedContent)
    IN  SelectSeq([i \in 1..Len(ls) |-> TrimSpace(ls[i])],
                  LAMBDA t : t # <<>>)

\* main.go:563-571 over the lines of the edited content
ParseCommands(editedContent) ==
    CommandsFrom(SplitLines(editedContent), 1)

\* main.go:571-574: the project's phases after a single-phase edit
PhaseEdited(phases, phaseName, editedContent) ==
    LET ps == WithPhase(phases, phaseName)
    IN  [ps EXCEPT ![PhaseIndex(ps, phaseName)].commands =
            ParseCommands(editedContent)]

\* the arguments of an edit
EditProjectArgs == {<<"p">>, <<"r">>}
EditPhaseArgs == {<<"a">>, <<"n">>}

\* editCmd: loadConfig, then the initial content is written to the temporary
\* file and the editor is started on it (main.go:591-605, 157-188, 526-556,
\* 118-137)
editCmd(p) ==
    /\ inv[p].pc = "idle"
    /\ \E n \in 1..2, a1 \in EditProjectArgs, a2 \in EditPhaseArgs :
        LET r0 == [inv[p] EXCEPT !.op = "edit", !.nargs = n,
                       !.projectName = a1,
                       !.phaseName = IF n = 2 THEN a2 ELSE <<>>]
            cfg == loadConfig
            phases == PhasesOf(cfg.projects, a1)
        IN  inv' = [inv EXCEPT ![p] =
                IF ~cfg.ok THEN Fatal(r0, "load_config")
                ELSE [r0 EXCEPT !.pc = "editor", !.config = cfg.projects,
                          !.tmpFile = IF n = 1 THEN Serialize(a1, phases)
                                      ELSE PhaseContent(phases, a2)]]
    /\ UNCHANGED <<globalFile, localFile, inRepo, chdirOk>>

\* the permutations of 1..n, and a sequence reordered by one
Perms(n) == {f \in [1..n -> 1..n] : \A i, j \in 1..n : f[i] = f[j] => i = j}
Permute(seq, f) == [k \in 1..Len(seq) |-> seq[f[k]]]

\* lines an operator types
LineHeadA == HeadingMarker \o <<"a">>
LineHeadB == HeadingMarker \o <<"b">>
LineX == <<"x">>
LineY == <<" ", "y", " ">>
LineBlank == <<>>
LineSpaces == <<" ", " ">>
LineHyphen == <<"-", "z">>
LineHash == <<"#", " ", "c">>
LineTitle == ProjectTitle \o <<"p">>
FenceSh == <<BQ, BQ, BQ, "s", "h">>

\* documents an operator leaves in place of the initial content
OperatorDocs ==
    {JoinLines(<<>>),
     JoinLines(<<LineHeadA, Fence, LineX, Fence>>),
     JoinLines(<<LineHeadA, FenceBash, LineSpaces, Fence,
                 LineHeadB, FenceBash, LineY, LineX, Fence, LineBlank>>),
     JoinLines(<<LineX, LineHash, LineBlank, LineHyphen, LineY>>),
     JoinLines(<<LineHash, LineSpaces>>)}

\* what the operator may leave in the temporary file: the initial content,
\* the phase blocks of a whole-project document moved into another order, or
\* a document typed anew
OperatorContents(r) ==
    LET phases == PhasesOf(r.config, r.projectName)
    IN  {[kind |-> "unchanged", perm |-> <<>>, content |-> r.tmpFile]}
        \cup {[kind |-> "typed", perm |-> <<>>, content |-> d] :
                d \in OperatorDocs}
        \cup IF r.nargs = 1
             THEN {[kind |-> "moved", perm |-> f,
                    content |-> Serialize(r.projectName, Permute(phases, f))] :
                        f \in Perms(Len(phases)) \ {[k \in 1..Len(phases) |-> k]}}
             ELSE {}

\* openEditor, main.go:137-143: the editor cannot be started, or it runs, the
\* operator leaves a content and the editor exits with a status; cmd.Run
\* returns an error in the first case and for a non-zero status
editor(p) ==
    /\ inv[p].pc = "editor"
    /\ \/ inv' = [inv EXCEPT ![p] = Fatal(@, "editor")]
       \/ \E c \in OperatorContents(inv[p]), status \in {0, 1} :
            inv' = [inv EXCEPT ![p] =
                LET r == [@ EXCEPT !.tmpFile = c.content,
                              !.operator = [kind |-> c.kind, perm |-> c.perm],
                              !.editorStatus = status]
                IN  IF status = 0 THEN [r EXCEPT !.pc = "edited"]
                    ELSE Fatal(r, "editor")]
    /\ UNCHANGED <<globalFile, localFile, inRepo, chdirOk>>

\* the project's phases after the edit (main.go:193-248, 562-571)
EditedPhases(r) ==
    IF r.nargs = 1 THEN Parse(r.tmpFile)
    ELSE PhaseEdited(PhasesOf(r.config, r.projectName), r.phaseName, r.tmpFile)

\* editSave loading the config file again before it replaces the project:
\* the projects saved by others since the first load are kept
editSave_Reload(p) ==
    /\ inv[p].pc = "edited"
    /\ \E saved \in BOOLEAN :
        IF saved
        THEN /\ globalFile' = FileOf(Put(loadConfig.projects,
                                         inv[p].projectName,
                                         EditedPhases(inv[p])))
             /\ inv' = [inv EXCEPT ![p] = Success(@)]
        ELSE /\ globalFile' = globalFile
             /\ inv' = [inv EXCEPT ![p] = Fatal(@, "save_config")]
    /\ UNCHANGED <<localFile, inRepo, chdirOk>>

\* editSave writing the edited project to the local configuration of the
\* repository root as well
editSave_Local(p) ==
    /\ inv[p].pc = "edited"
    /\ \E saved \in BOOLEAN :
        IF saved
        THEN /\ globalFile' = FileOf(Put(inv[p].config, inv[p].projectName,
                                         EditedPhases(inv[p])))
             /\ localFile' = [localFile EXCEPT ![RepoRoot] =
                    LocalFileOf([n \in {inv[p].projectName} |->
                                    EditedPhases(inv[p])])]
             /\ inv' = [inv EXCEPT ![p] = Success(@)]
        ELSE /\ globalFile' = globalFile
             /\ localFile' = localFile
             /\ inv' = [inv EXCEPT ![p] = Fatal(@, "save_config")]
    /\ UNCHANGED <<inRepo, chdirOk>>

\* editSave saving a config that holds the edited project alone
editSave_OnlyProject(p) ==
    /\ inv[p].pc = "edited"
    /\ \E saved \in BOOLEAN :
        IF saved
        THEN /\ globalFile' = FileOf(Put(EmptyProjects, inv[p].projectName,
                                         EditedPhases(inv[p])))
             /\ inv' = [inv EXCEPT ![p] = Success(@)]
        ELSE /\ globalFile' = globalFile
             /\ inv' = [inv EXCEPT ![p] = Fatal(@, "save_config")]
    /\ UNCHANGED <<localFile, inRepo, chdirOk>>

\* the temporary file is read and parsed, the project replaced in the loaded
\* config and the config saved (main.go:145-150, 193-254, 562-580); saveConfig
\* may fail, which leaves the file as it was
editSave(p) ==
    /\ inv[p].pc = "edited"
    /\ \E saved \in BOOLEAN :
        IF saved
        THEN /\ globalFile' = FileOf(Put(inv[p].config, inv[p].projectName,
                                         EditedPhases(inv[p])))
             /\ inv' = [inv EXCEPT ![p] = Success(@)]
        ELSE /\ globalFile' = globalFile
             /\ inv' = [inv EXCEPT ![p] = Fatal(@, "save_config")]
    /\ UNCHANGED <<localFile, inRepo, chdirOk>>

(***************************************************************************)
(* The edit operation's inputs.                                            *)
(***************************************************************************)

\* phases a configuration file may hold: plain ones, a name used twice, a
\* phase without commands, a command that starts with a hyphen, a command
\* with a leading blank
EditPhases ==
    {[name |-> <<"a">>, commands |-> <<<<"x">>>>],
     [name |-> <<"b">>, commands |-> <<<<"x">>, <<"y", " ", "z">>>>],
     [name |-> <<"c">>, commands |-> <<<<"y">>>>],
     [name |-> <<"a">>, commands |-> <<<<"y">>>>],
     [name |-> <<"e">>, commands |-> <<>>],
     [name |-> <<"h">>, commands |-> <<<<"m">>, <<"-", "x">>>>],
     [name |-> <<"s">>, commands |-> <<<<" ", "x">>>>]}

\* the lists of distinct phases of EditPhases, up to MaxPhases long
EditLists ==
    {l \in SeqsUpTo(EditPhases, MaxPhases) :
        \A i, j \in 1..Len(l) : l[i] = l[j] => i = j}

InitEdit ==
    /\ inRepo = TRUE
    /\ chdirOk = TRUE
    /\ localFile = [d \in Dirs |-> Absent]
    /\ globalFile \in
        {Absent, Undecodable}
        \cup {FileOf([n \in {<<"p">>, <<"q">>} |->
                        IF n = <<"p">> THEN l ELSE OtherList]) :
                l \in EditLists}
    /\ inv = [p \in {1} |-> Idle]

\* one invocation, by process 1
NextEdit ==
    \/ editCmd(1)
    \/ editor(1)
    \/ editSave(1)

SpecEdit == InitEdit /\ [][NextEdit]_vars

(***************************************************************************)
(* The line scanner of editEntireProject on its own, one line a step, over *)
(* the documents an operator can type.                                     *)
(***************************************************************************)

\* the longest typed document, in lines
MaxDocLines == 4

LineVocab ==
    {LineHeadA, LineHeadB, FenceBash, Fence, FenceSh, LineX, LineY,
     LineBlank, LineSpaces, LineHyphen, LineHash, LineTitle}

TypedDocs == {JoinLines(l) : l \in SeqsUpTo(LineVocab, MaxDocLines)}

\* main.go:201-238: the loop body on the next line of the edited content
scanLine(p) ==
    /\ inv[p].pc = "scan"
    /\ LET lines == SplitLines(inv[p].tmpFile)
       IN  /\ inv[p].lineNo < Len(lines)
           /\ inv' = [inv EXCEPT ![p] =
                    [@ EXCEPT !.lineNo = @ + 1,
                              !.scan = ScanLine(@, lines[inv[p].lineNo + 1])]]
    /\ UNCHANGED <<globalFile, localFile, inRepo, chdirOk>>

\* main.go:241-245: after the last line the open phase is finalized
scanEnd(p) ==
    /\ inv[p].pc = "scan"
    /\ inv[p].lineNo = Len(SplitLines(inv[p].tmpFile))
    /\ inv' = [inv EXCEPT ![p] =
            [@ EXCEPT !.pc = "scanned", !.scan.newPhases = Finalize(inv[p].scan)]]
    /\ UNCHANGED <<globalFile, localFile, inRepo, chdirOk>>

InitScan ==
    /\ inRepo = TRUE
    /\ chdirOk = TRUE
    /\ localFile = [d \in Dirs |-> Absent]
    /\ globalFile = Absent
    /\ \E doc \in TypedDocs :
        inv = [p \in {1} |->
                [Idle EXCEPT !.op = "edit", !.nargs = 1, !.pc = "scan",
                             !.projectName = <<"p">>, !.tmpFile = doc]]

NextScan ==
    \/ scanLine(1)
    \/ scanEnd(1)

SpecScan == InitScan /\ [][NextScan]_vars

(***************************************************************************)
(* The dump operation: dumpCmd (main.go:639-652), dumpProjectConfig        *)
(* (265-299); and a run that follows it.                                   *)
(***************************************************************************)

\* the project a caller asks to dump
DumpArgs == {<<"p">>, <<"q">>, <<"w">>}

\* DumpFile with the local config marshalled as a Config, under "projects"
DumpFile_Wrapped(projectName, proj) ==
    FileOf([n \in {projectName} |-> proj])

\* main.go:281-286: the local config with just this project, marshalled
DumpFile(projectName, proj) ==
    LocalFileOf([n \in {projectName} |-> proj])

\* dumpCmd: loadConfig, the project looked up, the repository root asked of
\* git, and the file written at the root (main.go:644-650, 267-298);
\* os.WriteFile may fail, which is taken to leave the file as it was
dumpCmd(p) ==
    /\ inv[p].pc = "idle"
    /\ \E a1 \in DumpArgs, written \in BOOLEAN :
        LET r0 == [inv[p] EXCEPT !.op = "dump", !.nargs = 1,
                                 !.projectName = a1]
            cfg == loadConfig
            ok == cfg.ok /\ a1 \in DOMAIN cfg.projects /\ inRepo /\ written
        IN  /\ inv' = [inv EXCEPT ![p] =
                    IF ~cfg.ok THEN Fatal(r0, "load_config")
                    ELSE IF a1 \notin DOMAIN cfg.projects
                    THEN Fatal([r0 EXCEPT !.config = cfg.projects],
                               "project_not_found")
                    ELSE IF ~inRepo
                    THEN Fatal([r0 EXCEPT !.config = cfg.projects],
                               "no_git_root")
                    ELSE IF ~written
                    THEN Fatal([r0 EXCEPT !.config = cfg.projects],
                               "write_local")
                    ELSE Success([r0 EXCEPT !.config = cfg.projects])]
            /\ localFile' =
                    IF ok
                    THEN [localFile EXCEPT ![RepoRoot] =
                            DumpFile(a1, cfg.projects[a1])]
                    ELSE localFile
    /\ UNCHANGED <<globalFile, inRepo, chdirOk>>

\* a second invocation, a run, made once the first one has ended
thenRun ==
    /\ inv[1].pc = "exited"
    /\ runCmd(2)

InitDump ==
    /\ inRepo \in BOOLEAN
    /\ chdirOk \in BOOLEAN
    /\ globalFile \in
        {Absent, Undecodable}
        \cup {FileOf([n \in {<<"p">>, <<"q">>} |->
                        IF n = <<"p">> THEN t ELSE OtherList]) :
                t \in RunLists}
    /\ \E atRoot \in {Absent, Undecodable,
                      LocalFileOf([n \in {<<"x">>, <<"z">>} |-> OtherList])} :
        localFile = [d \in Dirs |-> IF d = "root" THEN atRoot ELSE Absent]
    /\ inv = [p \in {1, 2} |-> Idle]

\* a dump by process 1, then a run by process 2
NextDump ==
    \/ dumpCmd(1)
    \/ thenRun
    \/ runChdir(2)
    \/ runResolve(2)
    \/ runStartPhase(2)
    \/ shCommand(2)
    \/ shExit(2)
    \/ runReturn(2)

SpecDump == InitDump /\ [][NextDump]_vars

(***************************************************************************)
(* Two runs, one after the other, with the same arguments on the same      *)
(* files.                                                                  *)
(***************************************************************************)

\* the caller repeats the run of process 1: same arguments, same directory
runAgain ==
    /\ inv[1].pc = "exited"
    /\ runCmd(2)
    /\ inv'[2].nargs = inv[1].nargs
    /\ inv'[2].nargs > 0 => inv'[2].projectName = inv[1].projectName
    /\ inv'[2].phaseName = inv[1].phaseName
    /\ inv'[2].startDir = inv[1].startDir

InitTwice ==
    /\ inRepo \in BOOLEAN
    /\ chdirOk = TRUE
    /\ \E t \in RunLists :
        /\ globalFile = FileOf([n \in {<<"p">>, <<"q">>} |->
                                    IF n = <<"p">> THEN t ELSE OtherList])
        /\ \E atRoot \in
                {Absent, LocalFileOf(EmptyProjects),
                 LocalFileOf([n \in {<<"x">>} |-> t]),
                 LocalFileOf([n \in {<<"x">>, <<"z">>} |->
                                IF n = <<"x">> THEN t ELSE OtherList])} :
            localFile = [d \in Dirs |-> IF d = "root" THEN atRoot ELSE Absent]
    /\ inv = [p \in {1, 2} |-> Idle]

NextTwice ==
    \/ runCmd(1)
    \/ runChdir(1)
    \/ runResolve(1)
    \/ runStartPhase(1)
    \/ shCommand(1)
    \/ shExit(1)
    \/ runReturn(1)
    \/ runAgain
    \/ runChdir(2)
    \/ runResolve(2)
    \/ runStartPhase(2)
    \/ shCommand(2)
    \/ shExit(2)
    \/ runReturn(2)

SpecTwice == InitTwice /\ [][NextTwice]_vars

(***************************************************************************)
(* An edit of a project that has a local configuration, and a run of that  *)
(* project after it.                                                       *)
(***************************************************************************)

\* the caller runs the project it has edited
runEdited ==
    /\ inv[1].pc = "exited"
    /\ runCmd(2)
    /\ inv'[2].nargs >= 1
    /\ inv'[2].projectName = inv[1].projectName

\* the phase lists of the local file and of the global config
LocalLists == {t \in RunLists : Len(t) = 2}
GlobalLists == {l \in EditLists : Len(l) <= 1}

InitEditRun ==
    /\ inRepo = TRUE
    /\ chdirOk = TRUE
    /\ \E l \in GlobalLists :
        globalFile = FileOf([n \in {<<"p">>, <<"q">>} |->
                                IF n = <<"p">> THEN l ELSE OtherList])
    /\ \E t \in LocalLists, name \in EditProjectArgs :
        localFile = [d \in Dirs |->
                        IF d = "root" THEN LocalFileOf([n \in {name} |-> t])
                        ELSE Absent]
    /\ inv = [p \in {1, 2} |-> Idle]

\* an edit by process 1, then a run by process 2
NextEditRun ==
    \/ editCmd(1)
    \/ editor(1)
    \/ editSave(1)
    \/ runEdited
    \/ runChdir(2)
    \/ runResolve(2)
    \/ runStartPhase(2)
    \/ shCommand(2)
    \/ shExit(2)
    \/ runReturn(2)

SpecEditRun == InitEditRun /\ [][NextEditRun]_vars

(***************************************************************************)
(* Two edit invocations at the same time on the same configuration file:   *)
(* two processes, each running main, their steps interleaved.              *)
(***************************************************************************)

InitRace ==
    /\ inRepo = TRUE
    /\ chdirOk = TRUE
    /\ localFile = [d \in Dirs |-> Absent]
    /\ globalFile \in
        {Absent}
        \cup {FileOf([n \in {<<"p">>, <<"q">>} |->
                        IF n = <<"p">> THEN l ELSE OtherList]) :
                l \in GlobalLists}
    /\ inv = [p \in {1, 2} |-> Idle]

NextRace ==
    \/ editCmd(1)
    \/ editor(1)
    \/ editSave(1)
    \/ editCmd(2)
    \/ editor(2)
    \/ editSave(2)

SpecRace == InitRace /\ [][NextRace]_vars

(***************************************************************************)
(* A run that is not held up: main is one sequential process, and every    *)
(* script it hands to the shell comes to an end, so the step that is next  *)
(* is taken.                                                                *)
(***************************************************************************)

SpecRunFair == InitRun /\ [][NextRun]_vars /\ WF_vars(NextRun)

(***************************************************************************)
(* A whole-project edit left unchanged, and a second one after it, over    *)
(* phase lists that the first one does not hand back as they were.         *)
(***************************************************************************)

\* a command of two lines, the second a heading
CmdWithHeading == <<"x", "\n">> \o HeadingMarker \o <<"k">>

\* phases of a configuration file written by hand: a plain one, white space
\* around the name and a command, an empty command, an empty name, a fence
\* delimiter as a command, a heading inside a command, no command at all,
\* lines the scanner skips or takes for commands
IdemPhases ==
    {[name |-> <<"a">>, commands |-> <<<<"x">>>>],
     [name |-> <<" ", "b", " ">>,
      commands |-> <<<<" ", "y", " ">>, <<>>>>],
     [name |-> <<>>, commands |-> <<<<"z">>>>],
     [name |-> <<"c">>, commands |-> <<Fence, <<"x">>>>],
     [name |-> <<"d">>, commands |-> <<CmdWithHeading, <<"y">>>>],
     [name |-> <<"e">>, commands |-> <<>>],
     [name |-> <<"h">>, commands |-> <<<<"-", "x">>, FenceSh, LineHash>>]}

IdemLists == SeqsUpTo(IdemPhases, MaxPhases)

\* editCmd with one argument: the whole-project edit
editWhole ==
    /\ editCmd(1)
    /\ inv'[1].nargs = 1

\* the editor, when it runs, is closed with the document as it was written
editorUnchanged(p) ==
    /\ editor(p)
    /\ inv'[p].operator.kind \in {"none", "unchanged"}

\* once the first edit has saved, the same project is edited again
editWholeAgain ==
    /\ inv[1].pc = "exited" /\ inv[1].exit = 0
    /\ editCmd(2)
    /\ inv'[2].nargs = 1
    /\ inv'[2].projectName = inv[1].projectName

InitIdem ==
    /\ inRepo = TRUE
    /\ chdirOk = TRUE
    /\ localFile = [d \in Dirs |-> Absent]
    /\ globalFile \in
        {FileOf([n \in {<<"p">>, <<"q">>} |->
                    IF n = <<"p">> THEN l ELSE OtherList]) :
            l \in IdemLists}
    /\ inv = [p \in {1, 2} |-> Idle]

NextIdem ==
    \/ editWhole
    \/ editorUnchanged(1)
    \/ editSave(1)
    \/ editWholeAgain
    \/ editorUnchanged(2)
    \/ editSave(2)

SpecIdem == InitIdem /\ [][NextIdem]_vars

(***************************************************************************)
(* Properties of the edit operation, checked under SpecEdit and SpecScan.  *)
(***************************************************************************)

\* process 1's invocation, the phases of the edited project as loaded, and
\* as saved
Edit == inv[1]
Original == PhasesOf(Edit.config, Edit.projectName)
Saved == PhasesOf(globalFile.projects, Edit.projectName)

EditDone == Edit.op = "edit" /\ Edit.pc = "exited" /\ Edit.exit = 0
WholeEditDone == EditDone /\ Edit.nargs = 1

\* a string with no white space at either end, and the lines of a command
Trimmed(str) == str # <<>> /\ str[1] \notin WhiteSpace
                           /\ str[Len(str)] \notin WhiteSpace

StartsWith(str, a, b, c) ==
    Len(str) >= 3 /\ str[1] = a /\ str[2] = b /\ str[3] = c

\* the input class of C1, read narrowly: names without newline, commands
\* without blank lines and without heading or fence lines; and moreover at
\* least one command in every phase and no white space around names and
\* commands
RoundTripInput(phases) ==
    \A i \in 1..Len(phases) :
        /\ Trimmed(phases[i].name)
        /\ \A k \in 1..Len(phases[i].name) : phases[i].name[k] # "\n"
        /\ Len(phases[i].commands) >= 1
        /\ \A j \in 1..Len(phases[i].commands) :
            LET cmd == phases[i].commands[j]
            IN  /\ Trimmed(cmd)
                /\ \A k \in 1..Len(cmd) : cmd[k] # "\n"
                /\ ~StartsWith(cmd, "#", "#", " ")
                /\ ~StartsWith(cmd, BQ, BQ, BQ)

\* C1. Round-trip of the whole-project edit document: for a project in the
\* input class, a whole-project edit that the operator leaves unchanged
\* saves exactly the phase list it loaded: same phases, names, commands and
\* order.
C1_RoundTrip ==
    (WholeEditDone /\ Edit.operator.kind = "unchanged"
        /\ RoundTripInput(Original)) =>
            Saved = Original

\* the names of a phase list
Names(phases) == [i \in 1..Len(phases) |-> phases[i].name]

\* the text after the marker of every line that starts, white space aside,
\* with the heading marker, in text order
HeadingNames(content) ==
    LET ls == SplitLines(content)
        hs == SelectSeq([i \in 1..Len(ls) |-> TrimSpace(ls[i])],
                        LAMBDA t : StartsWith(t, "#", "#", " "))
    IN  [i \in 1..Len(hs) |-> TrimSpace(SubSeq(hs[i], 4, Len(hs[i])))]

\* a is b with some elements left out
RECURSIVE IsSubseq(_, _)
IsSubseq(a, b) ==
    IF a = <<>> THEN TRUE
    ELSE IF b = <<>> THEN FALSE
    ELSE IF Head(a) = Head(b) THEN IsSubseq(Tail(a), Tail(b))
    ELSE IsSubseq(a, Tail(b))

\* the phases parsed from each block on its own, in the order perm gives
RECURSIVE BlockwiseFrom(_, _, _, _)
BlockwiseFrom(projectName, phases, perm, k) ==
    IF k > Len(perm) THEN <<>>
    ELSE Parse(DocHeader(projectName) \o PhaseBlock(phases[perm[k]]))
            \o BlockwiseFrom(projectName, phases, perm, k + 1)

\* C5. Order preservation on parse: the phases saved by a whole-project edit
\* carry, in order, names of the headings of the edited text; and when the
\* operator moved the phase blocks into another order, the saved list is what
\* each block parses to, in the order of the blocks in the text.
C5_OrderPreserved ==
    WholeEditDone =>
        /\ IsSubseq(Names(Saved), HeadingNames(Edit.tmpFile))
        /\ Edit.operator.kind = "moved" =>
            Saved = BlockwiseFrom(Edit.projectName, Original,
                                  Edit.operator.perm, 1)

\* the spec's example: [a, b, c] with c moved before a is saved as [c, a, b]
C5_Witness ==
    /\ WholeEditDone
    /\ Edit.operator.kind = "moved"
    /\ Edit.operator.perm = <<3, 1, 2>>
    /\ Names(Original) = <<<<"a">>, <<"b">>, <<"c">>>>
    /\ Names(Saved) = <<<<"c">>, <<"a">>, <<"b">>>>
    /\ Saved = Permute(Original, Edit.operator.perm)

\* the lines of the scanned document, and the headings whose block (the
\* lines up to the next heading) holds a line that is neither white space
\* nor one of the two fence delimiters of main.go:230
DocLines == SplitLines(inv[1].tmpFile)
IsHeadingLine(line) == StartsWith(TrimSpace(line), "#", "#", " ")
NonEmptyBlocks ==
    {i \in 1..Len(DocLines) :
        /\ IsHeadingLine(DocLines[i])
        /\ \E j \in (i + 1)..Len(DocLines) :
            /\ \A k \in (i + 1)..j : ~IsHeadingLine(DocLines[k])
            /\ TrimSpace(DocLines[j]) # <<>>
            /\ TrimSpace(DocLines[j]) \notin
                    {<<BQ, BQ, BQ>>, <<BQ, BQ, BQ, "b", "a", "s", "h">>}}

\* C6. Empty-phase elision on parse: every phase of the parsed result has at
\* least one command, and there are no more phases than headings with a
\* block that is not empty or white space only.
C6_EmptyPhaseElision ==
    inv[1].pc = "scanned" =>
        /\ \A i \in 1..Len(inv[1].scan.newPhases) :
                Len(inv[1].scan.newPhases[i].commands) >= 1
        /\ Len(inv[1].scan.newPhases) <= Cardinality(NonEmptyBlocks)

\* a heading with a fenced block of white space only yields no phase
C6_Witness ==
    /\ inv[1].pc = "scanned"
    /\ DocLines = <<LineHeadA, FenceBash, LineSpaces, Fence>>
    /\ inv[1].scan.newPhases = <<>>

\* no phase of any project has zero commands
NoEmptyPhase(projects) ==
    \A n \in DOMAIN projects :
        \A i \in 1..Len(projects[n]) : Len(projects[n][i].commands) >= 1

\* C7. No empty phase is ever persisted by editing: when the loaded config
\* has no phase with zero commands, neither has the config that an edit
\* saves.
C7_NoEmptyPhasePersisted ==
    (EditDone /\ NoEmptyPhase(Edit.config)) => NoEmptyPhase(globalFile.projects)

(***************************************************************************)
(* Properties of the run operation, checked under SpecRun.                 *)
(***************************************************************************)

\* process 1's invocation and its log
Run == inv[1]
Log == inv[1].log
Starts == {n \in 1..Len(Log) : Log[n].ev = "start"}

\* C2. Fail-fast: once a command of a phase has failed, nothing more is run:
\* no later command of that phase, no later phase; the shell's exit is all
\* that follows, and the run has ended with status 1.
C2_FailFast ==
    \A n \in 1..Len(Log) :
        (Log[n].ev = "cmd" /\ ~Log[n].ok) =>
            /\ \A m \in (n + 1)..Len(Log) : Log[m].ev = "exit"
            /\ Len(Log) = n + 1
            /\ Run.pc = "exited"
            /\ Run.exit = 1

\* the spec's example: [ok1, fail, ok2] in a phase that is not the last one
C2_Witness ==
    /\ Run.pc = "exited"
    /\ \E n \in 2..Len(Log) :
        /\ Log[n].ev = "cmd" /\ ~Log[n].ok /\ Log[n].cmd = 2
        /\ Log[n - 1].ev = "cmd" /\ Log[n - 1].ok
        /\ Len(Run.proj[Log[n].phase].commands) = 3
        /\ Log[n].phase < Len(Run.proj)

\* C3. Execution order: with no phase argument the k-th phase started is
\* the k-th phase of the list, it is started only right after the shell of
\* the phase before it has exited with status 0, no phase is started twice,
\* and the commands of a phase run in list order, each after the one before
\* it succeeded.
C3_ExecutionOrder ==
    \A n \in 1..Len(Log) :
        LET e == Log[n]
        IN  /\ (e.ev = "start" /\ Run.phaseName = <<>>) =>
                /\ e.script = Run.proj[e.phase].commands
                /\ Cardinality({m \in Starts : m <= n}) = e.phase
                /\ \A m \in Starts : m < n => Log[m].phase < e.phase
                /\ IF n = 1 THEN e.phase = 1
                   ELSE /\ Log[n - 1].ev = "exit"
                        /\ Log[n - 1].ok
                        /\ Log[n - 1].phase = e.phase - 1
            /\ e.ev = "cmd" =>
                /\ n > 1
                /\ e.script = <<Run.proj[e.phase].commands[e.cmd]>>
                /\ Log[n - 1].phase = e.phase
                /\ Log[n - 1].ok
                /\ IF e.cmd = 1 THEN Log[n - 1].ev = "start"
                   ELSE Log[n - 1].ev = "cmd" /\ Log[n - 1].cmd = e.cmd - 1

\* three phases run to the end, one of them with several commands
C3_Witness ==
    /\ Run.pc = "exited" /\ Run.exit = 0 /\ Run.phaseName = <<>>
    /\ Len(Run.proj) = 3
    /\ Cardinality(Starts) = 3
    /\ \E n \in 1..Len(Log) : Log[n].ev = "cmd" /\ Log[n].cmd = 3

\* C4. Local override precedence: when the local configuration of the working
\* directory parses to a single project X, the resolved phase list is X's
\* whatever project name the caller gave, every script started is a phase of
\* X, and a run of all phases that ends with status 0 started all of X's.
C4_LocalOverride ==
    LET lf == localFile[Run.cwd]
    IN  (Run.resolved /\ lf.kind = "ok"
            /\ Cardinality(DOMAIN lf.projects) = 1) =>
        LET X == lf.projects[CHOOSE n \in DOMAIN lf.projects : TRUE]
        IN  /\ Run.proj = X
            /\ \A n \in Starts :
                /\ Log[n].phase \in 1..Len(X)
                /\ Log[n].script = X[Log[n].phase].commands
            /\ (Run.pc = "exited" /\ Run.exit = 0 /\ Run.phaseName = <<>>) =>
                {Log[n].phase : n \in Starts} = 1..Len(X)

\* the caller names q, a project of the global config with other phases,
\* and the local project's phases have run
C4_Witness ==
    /\ Run.pc = "exited" /\ Run.exit = 0
    /\ Run.projectName = <<"q">>
    /\ localFile[Run.cwd].kind = "ok"
    /\ Cardinality(DOMAIN localFile[Run.cwd].projects) = 1
    /\ globalFile.kind = "ok"
    /\ Run.proj # globalFile.projects[<<"q">>]
    /\ Cardinality(Starts) >= 2

\* C8. Single-phase selection: with a phase name argument at most one script
\* is started, that of the first phase of the resolved project whose name is
\* the argument, character for character; a run that ends with status 0
\* started exactly one.
C8_SinglePhase ==
    Run.phaseName # <<>> =>
        /\ Cardinality(Starts) <= 1
        /\ \A n \in Starts :
            /\ Run.proj[Log[n].phase].name = Run.phaseName
            /\ \A j \in 1..(Log[n].phase - 1) :
                    Run.proj[j].name # Run.phaseName
            /\ Log[n].script = Run.proj[Log[n].phase].commands
        /\ (Run.pc = "exited" /\ Run.exit = 0) => Cardinality(Starts) = 1

\* phase "a" is asked for; the list holds "A" before it and another "a"
\* after it
C8_Witness ==
    /\ Run.pc = "exited" /\ Run.exit = 0
    /\ Run.phaseName = <<"a">>
    /\ Len(Run.proj) = 3
    /\ Run.proj[1].name = <<"A">>
    /\ Run.proj[3].name = <<"a">>
    /\ \E n \in Starts : Log[n].phase = 2

\* the directory whose local configuration a run consults
EffectiveDir == IF inRepo THEN RepoRoot ELSE Run.cwd

\* C9. Resolution errors abort before execution: with no local configuration
\* and a project name that is empty or not in the global config, or with a
\* phase name that no phase of the resolved project carries, no script is
\* ever started and the run ends with a non-zero status.
C9_ResolutionErrors ==
    LET noProject ==
            /\ localFile[EffectiveDir].kind = "absent"
            /\ \/ Run.projectName = <<>>
               \/ Run.projectName \notin DOMAIN globalFile.projects
        noPhase ==
            /\ Run.resolved
            /\ Run.phaseName # <<>>
            /\ \A i \in 1..Len(Run.proj) : Run.proj[i].name # Run.phaseName
    IN  (Run.op = "run" /\ (noProject \/ noPhase)) =>
            /\ Starts = {}
            /\ Run.pc = "exited" => Run.exit = 1

\* a phase that the resolved, non-empty project does not have
C9_Witness ==
    /\ Run.pc = "exited" /\ Run.exit = 1
    /\ Run.resolved
    /\ Run.phaseName = <<"b">>
    /\ Len(Run.proj) = 3
    /\ Log = <<>>

\* C10. Absence of a version-control root is never fatal for a run: outside
\* a repository, with a parseable local configuration that holds phases in
\* the current directory and a loadable global config, the run resolves from
\* the local file.
C10_NoRepoNotFatal ==
    (/\ Run.op = "run" /\ Run.pc = "exited"
     /\ ~inRepo
     /\ localFile[Run.cwd].kind = "ok"
     /\ \E n \in DOMAIN localFile[Run.cwd].projects :
            localFile[Run.cwd].projects[n] # <<>>
     /\ globalFile.kind # "bad") =>
        /\ Run.err # "no_git_name"
        /\ Run.hasLocal

(***************************************************************************)
(* Properties of the line scanner, checked under SpecScan.                 *)
(***************************************************************************)

\* the scanner's variables, and the trimmed texts of the document's lines
Scan == inv[1].scan
Texts == LET ls == DocLines IN [i \in 1..Len(ls) |-> TrimSpace(ls[i])]

\* a line is left to scan; its trimmed text
Scanning(ts) == inv[1].pc = "scan" /\ inv[1].lineNo < Len(ts)
NextText(ts) == ts[inv[1].lineNo + 1]

\* classes of trimmed lines, as the claims name them
HyphenText(t) == t # <<>> /\ t[1] = "-"
HashText(t) == t # <<>> /\ t[1] = "#"
TitleText(t) ==
    /\ Len(t) >= 10
    /\ SubSeq(t, 1, 10) = <<"#", " ", "P", "r", "o", "j", "e", "c", "t", ":">>
InstructionText(t) ==
    /\ Len(t) >= 13
    /\ SubSeq(t, 1, 13) =
        <<"E", "d", "i", "t", " ", "c", "o", "m", "m", "a", "n", "d", "s">>
HeadingText(t) == StartsWith(t, "#", "#", " ")
MarkerText(t) == StartsWith(t, BQ, BQ, BQ)
CodeFenceText(t) ==
    t \in {<<BQ, BQ, BQ>>, <<BQ, BQ, BQ, "b", "a", "s", "h">>}

\* every command the scanner holds: those of the phases appended so far and
\* those collected for the phase being built
CommandSet(st) ==
    {st.codeLines[k] : k \in 1..Len(st.codeLines)}
    \cup UNION {{st.newPhases[i].commands[k] :
                    k \in 1..Len(st.newPhases[i].commands)} :
                        i \in 1..Len(st.newPhases)}

\* C17 as stated. Rule 1 drops fence content: no line whose trimmed text
\* starts with a hyphen or with a "#" character is ever collected as a
\* command of any phase.
C17_FenceContentDropped ==
    \A cmd \in CommandSet(Scan) : ~HyphenText(cmd) /\ ~HashText(cmd)

\* C17, amended. A line whose trimmed text starts with a hyphen or with
\* "# Project:" is ignored wherever it stands (the scanner's variables stay
\* as they are) and is never a command of any phase; a line that starts with
\* "#" and is neither that title nor a heading is not dropped: inside a fence
\* of an open phase it is collected.
C17_Rule1 ==
    /\ [](\A cmd \in CommandSet(Scan) : ~HyphenText(cmd) /\ ~TitleText(cmd))
    /\ [][LET ts == Texts
              t == NextText(ts)
          IN  Scanning(ts) =>
                /\ (HyphenText(t) \/ TitleText(t)) => inv'[1].scan = Scan
                /\ (/\ HashText(t) /\ ~TitleText(t) /\ ~HeadingText(t)
                    /\ Scan.open /\ Scan.inCodeBlock) =>
                        inv'[1].scan =
                            [Scan EXCEPT !.codeLines = Append(@, t)]]_vars

\* inside the fence of phase a, the hyphen line is dropped and the "#" line
\* is collected
C17_Witness ==
    /\ inv[1].pc = "scanned"
    /\ DocLines = <<LineHeadA, Fence, LineHyphen, LineHash>>
    /\ Scan.newPhases = <<[name |-> <<"a">>, commands |-> <<LineHash>>]>>

\* C18. Fence-delimiter rule: every line whose trimmed text is the fence
\* marker, with or without a language tag of any kind, toggles the
\* inside-fence state and is not collected.
C18_FenceDelimiter ==
    [][LET ts == Texts
       IN  (Scanning(ts) /\ MarkerText(NextText(ts))) =>
                /\ inv'[1].scan.inCodeBlock = ~Scan.inCodeBlock
                /\ inv'[1].scan.codeLines = Scan.codeLines
                /\ inv'[1].scan.newPhases = Scan.newPhases]_vars

\* the heading lines among the first n lines, in text order
HeadingSeq(ts, n) ==
    SelectSeq([i \in 1..n |-> i], LAMBDA i : HeadingText(ts[i]))

\* the last heading before line k, 0 when there is none
HeadingBefore(ts, k) ==
    LET hs == HeadingSeq(ts, k - 1)
    IN  IF hs = <<>> THEN 0 ELSE hs[Len(hs)]

\* the line after the block of the heading at line h
BlockEnd(ts, h) ==
    LET later == {i \in (h + 1)..Len(ts) : HeadingText(ts[i])}
    IN  IF later = {} THEN Len(ts) + 1
        ELSE CHOOSE i \in later : \A j \in later : i <= j

\* line k of the block of heading h stands inside a fence: an odd number of
\* fence delimiters lies between the heading and it
InsideFence(ts, h, k) ==
    Cardinality({j \in (h + 1)..(k - 1) : CodeFenceText(ts[j])}) % 2 = 1

\* a line rule 4 speaks of: not blank, not ignored by rule 1, no heading, no
\* fence delimiter
OtherText(t) ==
    /\ t # <<>>
    /\ ~HyphenText(t) /\ ~TitleText(t) /\ ~InstructionText(t)
    /\ ~HeadingText(t) /\ ~CodeFenceText(t)

\* the commands of the block of heading h, from the text alone
BlockCommands(ts, h) ==
    LET ks == SelectSeq([n \in 1..(BlockEnd(ts, h) - h - 1) |-> h + n],
                        LAMBDA k : OtherText(ts[k]) /\ InsideFence(ts, h, k))
    IN  [n \in 1..Len(ks) |-> ts[ks[n]]]

\* the phases of the text, block by block, those without a command left out
BlockPhases(ts) ==
    LET hs == HeadingSeq(ts, Len(ts))
        all == [n \in 1..Len(hs) |->
                    [name |-> TrimSpace(SubSeq(ts[hs[n]], 4, Len(ts[hs[n]]))),
                     commands |-> BlockCommands(ts, hs[n])]]
    IN  SelectSeq(all, LAMBDA ph : ph.commands # <<>>)

\* C19. Heading rule: a heading line appends the phase being built when it
\* has a command, opens the phase named by the trimmed text after the marker,
\* clears the collected lines and leaves the scanner outside a fence; after a
\* heading nothing is collected before a fence delimiter; and the result
\* holds, for each heading in text order, the commands of that heading's own
\* block and no others.
C19_HeadingRule ==
    /\ [][LET ts == Texts
              t == NextText(ts)
          IN  (Scanning(ts) /\ HeadingText(t)) =>
                inv'[1].scan =
                    [newPhases |->
                        IF Scan.open /\ Len(Scan.codeLines) >= 1
                        THEN Append(Scan.newPhases,
                                    [name |-> Scan.name,
                                     commands |-> Scan.codeLines])
                        ELSE Scan.newPhases,
                     open |-> TRUE,
                     name |-> TrimSpace(SubSeq(t, 4, Len(t))),
                     inCodeBlock |-> FALSE,
                     codeLines |-> <<>>]]_vars
    /\ [](inv[1].pc = "scan" =>
            LET ts == Texts
                h == HeadingBefore(ts, inv[1].lineNo + 1)
            IN  (h > 0 /\ \A j \in (h + 1)..inv[1].lineNo :
                                ~CodeFenceText(ts[j])) =>
                    Scan.codeLines = <<>> /\ ~Scan.inCodeBlock)
    /\ [](inv[1].pc = "scanned" => Scan.newPhases = BlockPhases(Texts))

\* phase a's fence is never closed: the heading of b appends a with its
\* command and leaves the scanner outside a fence, nothing collected
C19_Witness ==
    /\ inv[1].pc = "scan"
    /\ DocLines = <<LineHeadA, Fence, LineX, LineHeadB>>
    /\ inv[1].lineNo = 4
    /\ Scan = [newPhases |-> <<[name |-> <<"a">>, commands |-> <<LineX>>]>>,
               open |-> TRUE, name |-> <<"b">>,
               inCodeBlock |-> FALSE, codeLines |-> <<>>]

\* the commands of a phase list, one after the other
RECURSIVE Flatten(_)
Flatten(phases) ==
    IF phases = <<>> THEN <<>>
    ELSE Head(phases).commands \o Flatten(Tail(phases))

\* C20. Collection rule: the collected lines change only by a line appended
\* while a phase is open and the scanner is inside a fence; every command
\* held is non-empty without white space at its ends; and the commands of the
\* result are the trimmed texts of lines that follow a heading and stand
\* inside a fence, so that a line before the first heading or outside every
\* fence is in no phase.
C20_CollectionRule ==
    /\ [][(inv[1].pc = "scan" /\ inv'[1].scan.codeLines # Scan.codeLines
                /\ inv'[1].scan.codeLines # <<>>) =>
            LET ts == Texts
            IN  /\ Scan.open /\ Scan.inCodeBlock
                /\ Scanning(ts)
                /\ inv'[1].scan.codeLines =
                        Append(Scan.codeLines, NextText(ts))]_vars
    /\ [](\A cmd \in CommandSet(Scan) : Trimmed(cmd))
    /\ [](inv[1].pc = "scanned" =>
            LET ts == Texts
                ks == SelectSeq([k \in 1..Len(ts) |-> k],
                        LAMBDA k :
                            /\ HeadingBefore(ts, k) > 0
                            /\ OtherText(ts[k])
                            /\ InsideFence(ts, HeadingBefore(ts, k), k))
            IN  Flatten(Scan.newPhases) = [n \in 1..Len(ks) |-> ts[ks[n]]])

\* a line before the first heading is not collected; a line with blanks
\* around it, inside the fence, is collected trimmed
C20_Witness ==
    /\ inv[1].pc = "scanned"
    /\ DocLines = <<LineX, LineHeadA, FenceBash, LineY>>
    /\ Scan.newPhases = <<[name |-> <<"a">>, commands |-> <<<<"y">>>>]>>

(***************************************************************************)
(* Error handling of the edit and run operations, checked under SpecEdit   *)
(* and SpecRun.                                                            *)
(***************************************************************************)

\* the editor was started and has exited: the operator left a content
EditorExited == Edit.op = "edit" /\ Edit.operator.kind # "none"

\* C11. Editor exit is not an edit failure: once the editor was launched and
\* has exited, with any exit status, the edit reads the temporary file back,
\* parses the content and persists the result; it ends with status 0 and the
\* parsed phases saved, unless writing the config file itself fails.
C11_EditorExitAccepted ==
    (EditorExited /\ Edit.pc = "exited") =>
        \/ Edit.err = "save_config"
        \/ /\ Edit.exit = 0
           /\ Edit.err = "none"
           /\ Saved = EditedPhases(Edit)

\* C12. Every fatal condition of a run ends it with a non-zero exit status and
\* a message on the error stream; no fatal path exits without a message.
C12_FatalHasMessage ==
    (Run.op = "run" /\ Run.pc = "exited" /\ Run.err # "none") =>
        /\ Run.exit # 0
        /\ Run.stderr

(***************************************************************************)
(* Properties of a dump and the run that follows it, checked under         *)
(* SpecDump.                                                               *)
(***************************************************************************)

\* the dump of process 1 and the run of process 2
Dump == inv[1]
Then == inv[2]
DumpDone == Dump.op = "dump" /\ Dump.pc = "exited" /\ Dump.exit = 0

\* the phases a run has started, in the order it started them, and their
\* scripts
StartedPhases(log) ==
    LET st == SelectSeq(log, LAMBDA e : e.ev = "start")
    IN  [i \in 1..Len(st) |-> st[i].phase]
StartedScripts(log) ==
    LET st == SelectSeq(log, LAMBDA e : e.ev = "start")
    IN  [i \in 1..Len(st) |-> st[i].script]

\* C13. Dump then run round-trip: after a successful dump of project P the
\* local configuration at the repository root is one entry keyed P, without
\* the "projects" wrapper, whose phase list is P's of the global config; a
\* run that follows, whatever its project argument, resolves that list, and
\* with no phase argument it starts P's phases from the first one on in list
\* order, all of them when it ends with status 0.
C13_DumpThenRun ==
    DumpDone =>
        LET P == Dump.projectName
            phases == globalFile.projects[P]
            lf == localFile[RepoRoot]
            k == Len(StartedPhases(Then.log))
        IN  /\ lf.kind = "ok"
            /\ ~lf.wrapper
            /\ DOMAIN lf.projects = {P}
            /\ lf.projects[P] = phases
            /\ Then.resolved => Then.proj = phases
            /\ k > 0 => Then.resolved
            /\ Then.phaseName = <<>> =>
                /\ k <= Len(phases)
                /\ StartedPhases(Then.log) = [i \in 1..k |-> i]
                /\ StartedScripts(Then.log) =
                        [i \in 1..k |-> phases[i].commands]
                /\ (Then.pc = "exited" /\ Then.exit = 0) => k = Len(phases)

\* project p is dumped over another local file, and a run that names w, a
\* project of no config, has run p's three phases
C13_Witness ==
    /\ DumpDone
    /\ Dump.projectName = <<"p">>
    /\ Then.pc = "exited" /\ Then.exit = 0
    /\ Then.projectName = <<"w">>
    /\ Len(globalFile.projects[<<"p">>]) = 3
    /\ StartedPhases(Then.log) = <<1, 2, 3>>
    /\ \E n \in 1..Len(Then.log) : Then.log[n].ev = "cmd"

(***************************************************************************)
(* Determinism of the resolution, checked under SpecTwice.                 *)
(***************************************************************************)

\* C14. Resolution is deterministic: two runs with the same arguments, the
\* same global configuration and the same parseable local configuration
\* resolve the same phase list, and the scripts they start are the same one
\* after the other (as far as both get), however many project entries the
\* local file holds.
C14_Deterministic ==
    (inv[1].resolved /\ inv[2].resolved) =>
        /\ inv[1].proj = inv[2].proj
        /\ \A i \in 1..Len(StartedScripts(inv[1].log)) :
                i <= Len(StartedScripts(inv[2].log)) =>
                    StartedScripts(inv[1].log)[i] =
                        StartedScripts(inv[2].log)[i]

(***************************************************************************)
(* The frame of an edit, checked under SpecEditRun.                        *)
(***************************************************************************)

\* the one project of the local configuration at the repository root
LocalPhases ==
    LET lf == localFile[RepoRoot]
    IN  lf.projects[CHOOSE n \in DOMAIN lf.projects : TRUE]

\* C15. Editing targets only the global configuration: with a local
\* configuration present, no step of a whole-project or single-phase edit
\* changes the local file; an edit that ends with status 0 has written the
\* edited project to the global config; and the run of that project that
\* follows resolves the local file's phases and starts only scripts of those,
\* all of them in order when it runs every phase to the end.
C15_EditFrame ==
    /\ [][localFile' = localFile]_vars
    /\ [](EditDone =>
            globalFile = FileOf(Put(Edit.config, Edit.projectName,
                                    EditedPhases(Edit))))
    /\ [](Then.resolved =>
            /\ Then.proj = LocalPhases
            /\ \A n \in 1..Len(Then.log) :
                Then.log[n].ev = "start" =>
                    Then.log[n].script =
                        LocalPhases[Then.log[n].phase].commands
            /\ (Then.pc = "exited" /\ Then.exit = 0
                    /\ Then.phaseName = <<>>) =>
                StartedScripts(Then.log) =
                    [i \in 1..Len(LocalPhases) |-> LocalPhases[i].commands])

\* a whole-project edit of p has changed p in the global config, and the run
\* of p that follows has run the two phases of the local file, not the edited
\* ones
C15_Witness ==
    /\ EditDone /\ Edit.nargs = 1
    /\ Edit.projectName = <<"p">>
    /\ DOMAIN localFile[RepoRoot].projects = {<<"p">>}
    /\ Saved # Original
    /\ Saved # <<>>
    /\ Saved # LocalPhases
    /\ Then.pc = "exited" /\ Then.exit = 0 /\ Then.phaseName = <<>>
    /\ Then.projectName = <<"p">>
    /\ Len(StartedScripts(Then.log)) = 2
    /\ StartedScripts(Then.log) # [i \in 1..Len(Saved) |-> Saved[i].commands]

(***************************************************************************)
(* The race of two edits, checked under SpecRace.                          *)
(***************************************************************************)

\* process p's edit has ended with status 0: it has saved
Saver(p) == inv[p].op = "edit" /\ inv[p].pc = "exited" /\ inv[p].exit = 0

\* the phases process p loaded for its project, and those it saved
Before(p) == PhasesOf(inv[p].config, inv[p].projectName)
Update(p) == EditedPhases(inv[p])

\* two edits of different projects that loaded the same config, as they do
\* when both load before either saves, and both saved
Raced ==
    /\ Saver(1) /\ Saver(2)
    /\ inv[1].projectName # inv[2].projectName
    /\ inv[1].config = inv[2].config

\* C16. Concurrent invocations race on the configuration file: when two edits
\* of different projects both load before either saves, the file at the end
\* is what one of them saved, the loaded config with its own project
\* replaced, and the project of the other is as it was loaded: the other's
\* update is lost. Nothing in load, mutate, save excludes the interleaving.
C16_LostUpdate ==
    Raced =>
        \E w \in {1, 2} :
            LET o == 3 - w
            IN  /\ globalFile = FileOf(Put(inv[w].config, inv[w].projectName,
                                           Update(w)))
                /\ PhasesOf(globalFile.projects, inv[o].projectName)
                        = Before(o)

\* both edits changed their project and both ended with status 0, and the
\* file holds the update of process 2 and not that of process 1
C16_Witness ==
    /\ Raced
    /\ Update(1) # Before(1)
    /\ Update(2) # Before(2)
    /\ PhasesOf(globalFile.projects, inv[2].projectName) = Update(2)
    /\ PhasesOf(globalFile.projects, inv[1].projectName) # Update(1)
    /\ inv[1].nargs = 1 /\ inv[1].projectName = <<"p">>


(***************************************************************************)
(* Frames of the two edits, checked under SpecEdit.                        *)
(***************************************************************************)

\* the trimmed lines that are neither blank nor start with the comment sign
CommandLines(ts) == SelectSeq(ts, LAMBDA t : t # <<>> /\ t[1] # "#")

\* the positions of the loaded project's phases that carry the edited name
NamedAt == {i \in 1..Len(Original) : Original[i].name = Edit.phaseName}

PhaseEditDone == EditDone /\ Edit.nargs = 2

\* C21. Single-phase edit frame: after a successful edit of phase P of
\* project X, P's commands are the trimmed non-blank lines of the edited
\* text that do not start with "#", in text order; every other phase of X
\* keeps its name, commands and position; every other project is unchanged;
\* and when P (or X) did not exist, P is appended at the end of X's list.
C21_PhaseEditFrame ==
    PhaseEditDone =>
        LET cmds == CommandLines(Texts)
            edited == [name |-> Edit.phaseName, commands |-> cmds]
        IN  /\ globalFile.kind = "ok" /\ globalFile.wrapper
            /\ DOMAIN globalFile.projects =
                    DOMAIN Edit.config \cup {Edit.projectName}
            /\ \A n \in DOMAIN Edit.config \ {Edit.projectName} :
                    globalFile.projects[n] = Edit.config[n]
            /\ IF NamedAt = {}
               THEN Saved = Append(Original, edited)
               ELSE /\ Len(Saved) = Len(Original)
                    /\ \A i \in 1..Len(Original) :
                        Saved[i] =
                            IF i \in NamedAt /\ \A j \in NamedAt : i <= j
                            THEN edited ELSE Original[i]

\* the second of three phases is edited: a comment line and a blank line are
\* dropped, a line that starts with a hyphen is kept
C21_Witness ==
    /\ PhaseEditDone
    /\ Len(Original) = 3
    /\ NamedAt = {2}
    /\ Saved[2].commands = <<<<"x">>, <<"-", "z">>, <<"y">>>>
    /\ Saved[1] = Original[1] /\ Saved[3] = Original[3]

\* C22. The persisted global configuration changes only through a completed
\* edit: after a successful whole-project edit of X the saved config is the
\* loaded config with X's entry replaced by the phase list parsed from the
\* edited text, every other project as it was; a step that does not complete
\* an edit (the editor not launched, the edit aborted) leaves the file alone.
C22_ConfigFrame ==
    /\ [](WholeEditDone =>
            globalFile = FileOf(Put(Edit.config, Edit.projectName,
                                    BlockPhases(Texts))))
    /\ [][globalFile' # globalFile =>
            /\ inv[1].pc = "edited"
            /\ inv'[1].pc = "exited" /\ inv'[1].exit = 0]_vars

\* a whole-project edit that changed the project next to another project
C22_Witness ==
    /\ WholeEditDone
    /\ Saved # Original /\ Saved # <<>>
    /\ <<"q">> \in DOMAIN globalFile.projects
    /\ globalFile.projects[<<"q">>] = OtherList


(***************************************************************************)
(* The working directory of a run, checked under SpecRun.                  *)
(***************************************************************************)

\* the run is past the change of directory: it is about to look the local
\* configuration up, or has done so
PastChdir ==
    /\ Run.op = "run"
    /\ \/ Run.pc \in {"resolve", "phases", "sh"}
       \/ /\ Run.pc = "exited"
          /\ Run.err \notin {"no_git_name", "load_config", "chdir"}

\* the phase lists of the file in the repository root
RootLists ==
    IF DOMAIN localFile[RepoRoot].projects = {} THEN {<<>>}
    ELSE {localFile[RepoRoot].projects[n] :
            n \in DOMAIN localFile[RepoRoot].projects}

\* C23. Working-directory normalization precedes configuration lookup:
\* inside a repository, wherever the run was started, the working directory
\* is the root before the local configuration is looked up and while every
\* phase script starts; the local configuration consulted is the one in the
\* root, and a file in the invocation subdirectory is never consulted.
C23_RootBeforeLookup ==
    (inRepo /\ PastChdir) =>
        /\ Run.cwd = RepoRoot
        /\ (Run.err = "local_config") =>
                localFile[RepoRoot].kind = "bad"
        /\ (Run.pc # "resolve" /\ localFile[RepoRoot].kind = "bad") =>
                Run.err = "local_config" /\ Starts = {}
        /\ Run.resolved =>
            /\ Run.hasLocal = (localFile[RepoRoot].kind = "ok")
            /\ Run.hasLocal => Run.proj \in RootLists
            /\ ~Run.hasLocal => Run.proj = Run.config[Run.projectName]

\* a run started in the subdirectory, which holds a local configuration of
\* its own, ran the phases of the root's file, in the root
C23_Witness ==
    /\ inRepo /\ Run.op = "run" /\ Run.startDir = "sub"
    /\ Run.pc = "exited" /\ Run.exit = 0
    /\ localFile["sub"].kind = "ok" /\ localFile[RepoRoot].kind = "ok"
    /\ Run.cwd = RepoRoot /\ Run.hasLocal
    /\ Run.proj \notin {localFile["sub"].projects[n] :
                            n \in DOMAIN localFile["sub"].projects}
    /\ Cardinality(Starts) >= 2


(***************************************************************************)
(* Two unchanged whole-project edits in a row, checked under SpecIdem.     *)
(***************************************************************************)

\* process p has ended a whole-project edit with status 0
WholeDone(p) ==
    /\ inv[p].op = "edit" /\ inv[p].nargs = 1
    /\ inv[p].pc = "exited" /\ inv[p].exit = 0

\* the phases process p loaded for the project it edits
Loaded(p) == PhasesOf(inv[p].config, inv[p].projectName)

\* C24. An unchanged whole-project edit is idempotent: whatever the first
\* unchanged edit of a phase list drops, trims or moves, the second
\* unchanged edit saves exactly the phase list it loaded, which is the one
\* the first edit saved: Parse(Serialize(Parse(Serialize(p)))) equals
\* Parse(Serialize(p)).
C24_UnchangedIdempotent ==
    (WholeDone(1) /\ WholeDone(2)) =>
        /\ globalFile = FileOf(inv[2].config)
        /\ \A n \in DOMAIN inv[1].config \ {inv[1].projectName} :
                globalFile.projects[n] = inv[1].config[n]

\* the first edit changed the phase list, the second did not
C24_Witness ==
    /\ WholeDone(1) /\ WholeDone(2)
    /\ Loaded(2) # Loaded(1)
    /\ Len(Loaded(2)) >= 2
    /\ PhasesOf(globalFile.projects, inv[2].projectName) = Loaded(2)


(***************************************************************************)
(* The outcome of a run, checked under SpecRunFair.                        *)
(***************************************************************************)

RunExited == Run.op = "run" /\ Run.pc = "exited"

\* the positions of the phases the run is to execute, once the project is
\* known: all of them, or the first with the requested name
NamedPhases == {i \in 1..Len(Run.proj) : Run.proj[i].name = Run.phaseName}
SelectedPhases ==
    IF Run.phaseName = <<>> THEN 1..Len(Run.proj)
    ELSE {i \in NamedPhases : \A j \in NamedPhases : i <= j}
ResolutionOk == Run.resolved /\ (Run.phaseName = <<>> \/ NamedPhases # {})

\* the phases whose script exited with status zero, and those whose script
\* could not be started or exited with another status
CompletedPhases ==
    {Log[n].phase : n \in {m \in 1..Len(Log) :
                            Log[m].ev = "exit" /\ Log[m].ok}}
FailedPhases ==
    {Log[n].phase : n \in {m \in 1..Len(Log) :
                            Log[m].ev \in {"start", "exit"} /\ ~Log[m].ok}}

\* C25. Run outcome: every phase script terminating, a run terminates; it
\* ends with exit status 0 if and only if resolution succeeded and the script
\* of every selected phase exited with status zero; and when a phase made it
\* end with another status, exactly the selected phases before the failing
\* one have completed successfully.
C25_RunOutcome ==
    /\ <>(Run.pc = "exited")
    /\ [](RunExited =>
            /\ Run.exit \in {0, 1}
            /\ (Run.exit = 0) <=>
                    (ResolutionOk /\ SelectedPhases \subseteq CompletedPhases)
            /\ (Run.exit # 0 /\ FailedPhases # {}) =>
                    \E f \in SelectedPhases :
                        /\ FailedPhases = {f}
                        /\ CompletedPhases =
                                {i \in SelectedPhases : i < f})

\* the third of three phases failed after the first two had completed
C25_Witness ==
    /\ RunExited /\ Run.exit = 1
    /\ Len(Run.proj) = 3 /\ Run.phaseName = <<>>
    /\ FailedPhases = {3}
    /\ CompletedPhases = {1, 2}


(***************************************************************************)
(* A run with a local configuration and the global file, under SpecRun.    *)
(***************************************************************************)

\* the run gets as far as the lookup of the local configuration whatever the
\* global file holds: it has a project name (an argument, or the repository's
\* name) and the change to the repository root succeeds
ReachesLookup == (Run.nargs > 0 \/ inRepo) /\ (inRepo => chdirOk)

\* the phase lists of the local file the run consults
ConsultedLists ==
    LET f == localFile[EffectiveDir]
    IN  IF DOMAIN f.projects = {} THEN {<<>>}
        ELSE {f.projects[n] : n \in DOMAIN f.projects}

\* C26. Independence of a local run from the global configuration: when a
\* parseable local configuration is present, the run ends as the local file
\* alone decides, with a phase list of the local file resolved, for every
\* state of the global file: absent, without the project, or undecodable.
C26_GlobalIndependent ==
    (RunExited /\ ReachesLookup /\ localFile[EffectiveDir].kind = "ok") =>
        /\ Run.err # "load_config"
        /\ Run.resolved /\ Run.hasLocal
        /\ Run.proj \in ConsultedLists

=============================================================================
